---- MODULE Spec2Model ----
(***************************************************************************)
(* Productivity tracker: the activity lifecycle, its timers and its        *)
(* persistence, modelled from class ProductivityTracker.                   *)
(*                                                                         *)
(* The revision with inline editing (src/unnamed/part_000) is the one      *)
(* modelled; src/app.js is the earlier revision of the same class.         *)
(*                                                                         *)
(* Representation of JavaScript values                                     *)
(*   - a nullable / non-finite number is a tagged record: Null, Num(v),    *)
(*     NaN, PosInf, NegInf;                                                *)
(*   - minutes (estimatedMinutes, actualMinutes) are fixed point, in       *)
(*     hundredths of a minute; difference is in tenths of a percent;       *)
(*     times (Date.now(), ISO strings) are milliseconds;                   *)
(*   - text typed by the user is a sequence of one-character strings;      *)
(*   - objects live in a heap (objs), the list and the active pointer hold *)
(*     references, so that "the same object" can be told from "an equal    *)
(*     object".                                                            *)
(***************************************************************************)
EXTENDS Integers, Sequences, FiniteSets, TLC

VARIABLES
    activities,            \* this.activities: sequence of object references
    objs,                  \* the heap: reference -> activity object
    activeActivity,        \* this.activeActivity: a reference, or NullRef
    timerInterval,         \* this.timerInterval: a timer handle, or NoHandle
    titleFlashInterval,    \* this.titleFlashInterval: a timer handle, or NoHandle
    notificationTimeouts,  \* this.notificationTimeouts: sequence of timer handles
    timers,                \* the page's live timers: handle -> "tick" | "flash" | "beep"
    documentTitle,         \* document.title: "original" | "notification"
    storage,               \* localStorage['productivityTrackerActivities']
    now,                   \* the wall clock, Date.now(), in ms
    ops,                   \* state-changing handler runs so far (bounds the model)
    last,                  \* the handler that ran last, and how it ended
    notified               \* runs of timerExpired since the last activity was started

vars == <<activities, objs, activeActivity, timerInterval, titleFlashInterval,
          notificationTimeouts, timers, documentTitle, storage, now, ops, last, notified>>

(***************************************************************************)
(* Bounds of the model.                                                    *)
(***************************************************************************)
\* handler runs, timer callbacks and page loads that change the tracker's state
\* or the stored text, at most
MaxOps == 4

(***************************************************************************)
(* JavaScript values.                                                      *)
(***************************************************************************)
Null == [t |-> "null"]
NaN == [t |-> "NaN"]
PosInf == [t |-> "Infinity"]
NegInf == [t |-> "-Infinity"]
Num(v) == [t |-> "num", v |-> v]
IsNum(x) == x.t = "num"

NullRef == 0
NoHandle == 0

\* JavaScript truthiness of a number-or-null value: null, NaN and 0 are falsy.
Truthy(x) == CASE x.t = "null" -> FALSE
               [] x.t = "NaN" -> FALSE
               [] x.t = "num" -> x.v # 0
               [] OTHER -> TRUE

Abs(n) == IF n < 0 THEN -n ELSE n

\* The integer nearest to n / d (d > 0), a tie going away from zero: what
\* Number.prototype.toFixed does to the magnitude of its argument.
RoundDiv(n, d) ==
    LET q == (2 * Abs(n) + d) \div (2 * d)
    IN  IF n < 0 THEN -q ELSE q

(***************************************************************************)
(* Text and number parsing.                                                *)
(***************************************************************************)
IsSpace(c) == c = " "
IsDigit(c) == c \in {"0", "1", "2", "3", "4", "5", "6", "7", "8", "9"}
DigitVal(c) ==
    CASE c = "0" -> 0 [] c = "1" -> 1 [] c = "2" -> 2 [] c = "3" -> 3
      [] c = "4" -> 4 [] c = "5" -> 5 [] c = "6" -> 6 [] c = "7" -> 7
      [] c = "8" -> 8 [] c = "9" -> 9

RECURSIVE TrimStart(_)
TrimStart(s) ==
    IF s # <<>> /\ IsSpace(Head(s)) THEN TrimStart(Tail(s)) ELSE s

RECURSIVE TrimEnd(_)
TrimEnd(s) ==
    IF s # <<>> /\ IsSpace(s[Len(s)]) THEN TrimEnd(SubSeq(s, 1, Len(s) - 1)) ELSE s

\* String.prototype.trim
Trim(s) == TrimEnd(TrimStart(s))

\* The longest prefix of s made of digits.
RECURSIVE DigitPrefix(_)
DigitPrefix(s) ==
    IF s # <<>> /\ IsDigit(Head(s)) THEN <<Head(s)>> \o DigitPrefix(Tail(s)) ELSE <<>>

RECURSIVE DigitsValue(_)
DigitsValue(ds) ==
    IF ds = <<>> THEN 0
    ELSE 10 * DigitsValue(SubSeq(ds, 1, Len(ds) - 1)) + DigitVal(ds[Len(ds)])

HasSign(s) == s # <<>> /\ Head(s) \in {"-", "+"}
Unsigned(s) == IF HasSign(s) THEN Tail(s) ELSE s
SignOf(s) == IF s # <<>> /\ Head(s) = "-" THEN -1 ELSE 1

\* parseInt(s): leading white space, an optional sign, then the longest run of
\* digits; NaN when there is no digit. The result is a whole number.
parseInt(s) ==
    LET t == TrimStart(s)
        ds == DigitPrefix(Unsigned(t))
    IN  IF ds = <<>> THEN NaN ELSE Num(SignOf(t) * DigitsValue(ds))

\* parseFloat(s): leading white space, an optional sign, digits, an optional
\* fraction; NaN when neither part holds a digit. The result is in hundredths
\* (the inputs of the model carry at most two fraction digits and no exponent).
parseFloat(s) ==
    LET t == TrimStart(s)
        u == Unsigned(t)
        ip == DigitPrefix(u)
        rest == SubSeq(u, Len(ip) + 1, Len(u))
        fp == IF rest # <<>> /\ Head(rest) = "." THEN DigitPrefix(Tail(rest)) ELSE <<>>
        f2 == SubSeq(fp \o <<"0", "0">>, 1, 2)
    IN  IF ip = <<>> /\ fp = <<>> THEN NaN
        ELSE Num(SignOf(t) * (100 * DigitsValue(ip) + DigitsValue(f2)))

(***************************************************************************)
(* Inputs of the model: what the user types or picks, and the clock.       *)
(***************************************************************************)
\* values of the activity-name field
Names == {<<>>, <<"a">>}
\* values of the duration-estimate field
Estimates == {<<>>, <<"0">>, <<"-", "1">>, <<"1">>, <<" ", "1", ".", "5">>}
\* values typed into an inline name editor
NameEdits == {<<>>, <<" ">>, <<" ", "b", " ">>}
\* values typed into an inline number editor
NumberEdits == {<<>>, <<".">>, <<"-", "1">>, <<"0">>, <<"2", ".", "5">>}
\* values of an inline datetime-local editor: empty, or a minute of local time
DateEdits == {Null, Num(1)}
\* the options of the inline status select
StatusOptions == {"in-progress", "completed"}
\* the editable columns
Fields == {"name", "startTime", "endTime", "estimatedMinutes", "actualMinutes", "status"}
\* the instants at which handlers run (ms); no difference of two of them, or
\* of one and a whole minute, is an odd multiple of 300 ms, where rounding
\* to hundredths of a minute would fall on a tie
ClockValues == {0, 40000}
\* the ids a delete or an edit may name: those of the rows, and one no record carries
UnknownIds == {7}

\* What the user hands to a handler.
TextInput(s) == [k |-> "text", s |-> s]
DateInput(d) == [k |-> "date", d |-> d]
OptionInput(o) == [k |-> "option", o |-> o]

EditInputs(field) ==
    CASE field = "name" -> {TextInput(s) : s \in NameEdits}
      [] field \in {"estimatedMinutes", "actualMinutes"} -> {TextInput(s) : s \in NumberEdits}
      [] field \in {"startTime", "endTime"} -> {DateInput(d) : d \in DateEdits}
      [] field = "status" -> {OptionInput(o) : o \in StatusOptions}

\* new Date(value).toISOString() of a datetime-local value: minutes to ms.
MsPerMinute == 60000
DateToISO(d) == Num(d.v * MsPerMinute)

(***************************************************************************)
(* The heap and the list.                                                  *)
(***************************************************************************)
Range(s) == {s[i] : i \in DOMAIN s}

\* The records of the list, in order, by value.
Records == [i \in DOMAIN activities |-> objs[activities[i]]]

\* A reference no live object uses.
NewRef(heap) == CHOOSE r \in 1..(Cardinality(DOMAIN heap) + 1) : r \notin DOMAIN heap

\* The heap with one more object.
Alloc(heap, r, o) == [x \in DOMAIN heap \cup {r} |-> IF x = r THEN o ELSE heap[x]]

\* The heap without the objects nothing refers to any more.
Collect(heap, list, active) ==
    [x \in (Range(list) \cup ({active} \ {NullRef})) |-> heap[x]]

\* Array.prototype.findIndex(a => a.id === id): the first index, 0 when none.
FindIndex(list, heap, id) ==
    IF \E i \in DOMAIN list : heap[list[i]].id = id
    THEN CHOOSE i \in DOMAIN list :
            /\ heap[list[i]].id = id
            /\ \A j \in 1..(i - 1) : heap[list[j]].id # id
    ELSE 0

\* Array.prototype.find(a => a.id === id): the first object, NullRef when none.
Find(list, heap, id) ==
    LET i == FindIndex(list, heap, id) IN IF i = 0 THEN NullRef ELSE list[i]

\* Array.prototype.filter(a => a.id !== id)
FilterOut_KeepsAll(list, heap, id) == list

RECURSIVE FilterOut(_, _, _)
FilterOut(list, heap, id) ==
    IF list = <<>> THEN <<>>
    ELSE (IF heap[Head(list)].id # id THEN <<Head(list)>> ELSE <<>>)
         \o FilterOut(Tail(list), heap, id)

(***************************************************************************)
(* Persistence.                                                            *)
(***************************************************************************)
\* JSON.stringify of a number: a non-finite number is written as null.
JsonNumber(x) == IF x.t \in {"NaN", "Infinity", "-Infinity"} THEN Null ELSE x

JsonRecord(o) ==
    [o EXCEPT !.estimatedMinutes = JsonNumber(@),
              !.actualMinutes = JsonNumber(@),
              !.difference = JsonNumber(@)]

\* saveToLocalStorage: the whole list, written as one JSON text.
saveToLocalStorage(list, heap) ==
    [kind |-> "json", data |-> [i \in DOMAIN list |-> JsonRecord(heap[list[i]])]]

\* loadFromLocalStorage: the list read back; nothing stored leaves the
\* constructor's empty list, text that does not parse gives the empty list.
loadFromLocalStorage(blob) ==
    CASE blob.kind = "absent" -> <<>>
      [] blob.kind = "malformed" -> <<>>
      [] blob.kind = "notalist" -> <<>>
      [] blob.kind = "json" -> blob.data

(***************************************************************************)
(* Derived fields.                                                         *)
(***************************************************************************)
ActualMinutes_Truncated(start, end) == Num((end.v - start.v) \div 600)

\* parseFloat(((end - start) / 60000).toFixed(2)), in hundredths of a minute
ActualMinutes(start, end) == Num(RoundDiv(end.v - start.v, 600))

\* parseFloat((((actual - estimated) / estimated) * 100).toFixed(1)), in tenths
\* of a percent; a zero estimate divides by zero
Difference(actual, estimated) ==
    IF estimated.v = 0
    THEN (IF actual.v > 0 THEN PosInf ELSE IF actual.v < 0 THEN NegInf ELSE NaN)
    ELSE Num(RoundDiv((actual.v - estimated.v) * 1000 * (IF estimated.v < 0 THEN -1 ELSE 1),
                      Abs(estimated.v)))

(***************************************************************************)
(* The timer display: the text and the styling classes of the timer        *)
(* element.                                                                *)
(***************************************************************************)
DigitChar(d) ==
    CASE d = 0 -> "0" [] d = 1 -> "1" [] d = 2 -> "2" [] d = 3 -> "3"
      [] d = 4 -> "4" [] d = 5 -> "5" [] d = 6 -> "6" [] d = 7 -> "7"
      [] d = 8 -> "8" [] d = 9 -> "9"

\* String(n) of a natural number
RECURSIVE String(_)
String(n) == IF n < 10 THEN <<DigitChar(n)>> ELSE String(n \div 10) \o <<DigitChar(n % 10)>>

\* s.padStart(2, '0')
padStart2(s) == IF Len(s) < 2 THEN [i \in 1..(2 - Len(s)) |-> "0"] \o s ELSE s

\* The styling in force while the countdown is below a minute and not
\* negative.
Warning(remainingSeconds) == remainingSeconds < 60

\* updateTimerDisplay, on the remaining seconds of the active activity
updateTimerDisplay(remainingSeconds) ==
    LET minutes == Abs(remainingSeconds) \div 60
        seconds == Abs(remainingSeconds) % 60
        sign == IF remainingSeconds < 0 THEN <<"-">> ELSE <<>>
    IN  [textContent |-> sign \o padStart2(String(minutes)) \o <<":">>
                              \o padStart2(String(seconds)),
         classList |-> IF remainingSeconds < 0 THEN {"expired"}
                       ELSE IF Warning(remainingSeconds) THEN {"warning"}
                       ELSE {}]

\* The timer element while an activity is active: startActivity and every
\* tick refresh it from the remaining seconds.
timerElement == updateTimerDisplay(objs[activeActivity].remainingSeconds)

(***************************************************************************)
(* Timers. A timer state is the record of the tracker's timer fields and   *)
(* of the page's live timers.                                              *)
(***************************************************************************)
TimerState ==
    [timerInterval |-> timerInterval,
     titleFlashInterval |-> titleFlashInterval,
     notificationTimeouts |-> notificationTimeouts,
     timers |-> timers,
     documentTitle |-> documentTitle]

\* setInterval / setTimeout hand out a handle no live timer has (the browser
\* counts upwards; the model reuses the handles of timers that are gone).
NewHandle(tm) == CHOOSE h \in 1..(Cardinality(DOMAIN tm) + 1) : h \notin DOMAIN tm

SetTimer(tm, h, kind) == [x \in DOMAIN tm \cup {h} |-> IF x = h THEN kind ELSE tm[x]]

\* clearInterval / clearTimeout: a handle that is not live is ignored.
ClearHandles(tm, hs) == [x \in DOMAIN tm \ hs |-> tm[x]]

clearTimer_ClearsNewest(T) ==
    IF DOMAIN T.timers # {}
    THEN [T EXCEPT !.timers = ClearHandles(@, {CHOOSE h \in DOMAIN T.timers :
                                                  \A g \in DOMAIN T.timers : g <= h}),
                   !.timerInterval = NoHandle]
    ELSE T

clearTimer(T) ==
    IF T.timerInterval # NoHandle
    THEN [T EXCEPT !.timers = ClearHandles(@, {T.timerInterval}),
                   !.timerInterval = NoHandle]
    ELSE T

startTimer(T) ==
    LET C == clearTimer(T)
        h == NewHandle(C.timers)
    IN  [C EXCEPT !.timers = SetTimer(@, h, "tick"), !.timerInterval = h]

stopTitleFlashing(T) ==
    IF T.titleFlashInterval # NoHandle
    THEN [T EXCEPT !.timers = ClearHandles(@, {T.titleFlashInterval}),
                   !.titleFlashInterval = NoHandle,
                   !.documentTitle = "original"]
    ELSE T

startTitleFlashing(T) ==
    LET C == stopTitleFlashing(T)
        h == NewHandle(C.timers)
    IN  [C EXCEPT !.timers = SetTimer(@, h, "flash"), !.titleFlashInterval = h]

\* The first beep sounds at once; the second is scheduled and tracked.
playNotificationSound(T) ==
    LET h == NewHandle(T.timers)
    IN  [T EXCEPT !.timers = SetTimer(@, h, "beep"),
                  !.notificationTimeouts = Append(@, h)]

timerExpired(T) == startTitleFlashing(playNotificationSound(T))

clearNotificationTimeouts_Forgets(T) == [T EXCEPT !.notificationTimeouts = <<>>]

\* notificationTimeouts.forEach(clearTimeout); notificationTimeouts = []
clearNotificationTimeouts(T) ==
    [T EXCEPT !.timers = ClearHandles(@, Range(T.notificationTimeouts)),
              !.notificationTimeouts = <<>>]

stopAll_KeepsFlashing(T) == clearNotificationTimeouts(clearTimer(T))

\* The termination path shared by completeActivity and the status edit.
stopAll(T) == clearNotificationTimeouts(stopTitleFlashing(clearTimer(T)))

SetTimerState(T) ==
    /\ timerInterval' = T.timerInterval
    /\ titleFlashInterval' = T.titleFlashInterval
    /\ notificationTimeouts' = T.notificationTimeouts
    /\ timers' = T.timers
    /\ documentTitle' = T.documentTitle

timerVars == <<timerInterval, titleFlashInterval, notificationTimeouts, timers, documentTitle>>
storeVars == <<activities, objs, activeActivity, storage>>

(***************************************************************************)
(* The handlers. Each action is one handler run to completion; last        *)
(* records which handler ran, on what input, and how it ended.             *)
(***************************************************************************)
Ran(op, result) == [op |-> op, result |-> result]

\* Whether renderActivities, which init() calls on what was loaded, returns:
\* text that parses to something that is not a list of activities (null, a
\* number, an object) is assigned to this.activities as it is, and its
\* .length or .map throws a TypeError out of the constructor.
Renders(blob) == blob.kind # "notalist"

\* How the constructor ends on the stored text.
Constructed(blob) ==
    IF Renders(blob) THEN Ran("constructor", "ok") ELSE Ran("constructor", "TypeError")

\* The tracker was constructed. After a constructor that threw, the page has
\* no working tracker (the list is not a list, the model keeps the empty
\* list in its place) and is followed no further than its next load.
Alive == last.result # "TypeError"

\* The ids of the rows on screen.
RowIds == {objs[r].id : r \in Range(activities)}

NewActivity_SecondsNotConverted(name, minutes) ==
    [id |-> now,
     name |-> name,
     startTime |-> Num(now),
     endTime |-> Null,
     estimatedMinutes |-> Num(minutes * 100),
     actualMinutes |-> Null,
     status |-> "in-progress",
     difference |-> Null,
     remainingSeconds |-> minutes]

\* The object startActivity builds.
NewActivity(name, minutes) ==
    [id |-> now,
     name |-> name,
     startTime |-> Num(now),
     endTime |-> Null,
     estimatedMinutes |-> Num(minutes * 100),
     actualMinutes |-> Null,
     status |-> "in-progress",
     difference |-> Null,
     remainingSeconds |-> minutes * 60]

HasActiveActivity_Ignored == FALSE

\* if (this.activeActivity): an activity is in progress
HasActiveActivity == activeActivity # NullRef

IsActiveId_Never(activityId) == FALSE

\* this.activeActivity && this.activeActivity.id === activityId
IsActiveId(activityId) ==
    activeActivity # NullRef /\ objs[activeActivity].id = activityId

Rejected_Saves(op, result) ==
    /\ last' = Ran(op, result)
    /\ storage' = saveToLocalStorage(activities, objs)
    /\ UNCHANGED <<activities, objs, activeActivity, timerVars, now, notified>>

\* A handler that returns early: nothing but the record of its outcome changes.
Rejected(op, result) ==
    /\ last' = Ran(op, result)
    /\ UNCHANGED <<storeVars, timerVars, now, notified>>

Init ==
    /\ activities = <<>>
    /\ objs = <<>>
    /\ activeActivity = NullRef
    /\ timerInterval = NoHandle
    /\ titleFlashInterval = NoHandle
    /\ notificationTimeouts = <<>>
    /\ timers = <<>>
    /\ documentTitle = "original"
    /\ storage \in {[kind |-> "absent"], [kind |-> "malformed"], [kind |-> "notalist"]}
    /\ now = 0
    /\ ops = 0
    /\ last = Constructed(storage)
    /\ notified = 0

\* Time passes between two handlers.
AdvanceClock ==
    /\ Alive
    /\ \E t \in ClockValues : t > now /\ now' = t
    /\ last' = Ran("clock", "ok")
    /\ UNCHANGED <<storeVars, timerVars, ops, notified>>

startActivity(name, estimate) ==
    LET durationEstimate == parseInt(estimate)
    IN  IF HasActiveActivity
        THEN Rejected("startActivity", "alert-active")
        ELSE IF durationEstimate = NaN \/ durationEstimate.v < 1
        THEN Rejected("startActivity", "alert-invalid")
        ELSE LET r == NewRef(objs)
                 heap == Alloc(objs, r, NewActivity(name, durationEstimate.v))
                 list == <<r>> \o activities
             IN  /\ objs' = heap
                 /\ activities' = list
                 /\ activeActivity' = r
                 /\ storage' = saveToLocalStorage(list, heap)
                 /\ SetTimerState(startTimer(TimerState))
                 /\ last' = Ran("startActivity", "started")
                 /\ notified' = 0
                 /\ UNCHANGED now

Expires_Overdue(remaining) == remaining <= 0

\* this.activeActivity.remainingSeconds === 0, after the decrement
Expires(remaining) == remaining = 0

countDown_StopsAtZero ==
    LET current == objs[activeActivity].remainingSeconds
        remaining == IF current > 0 THEN current - 1 ELSE current
    IN  /\ objs' = [objs EXCEPT ![activeActivity].remainingSeconds = remaining]
        /\ IF Expires(remaining) /\ current > 0
           THEN /\ SetTimerState(timerExpired(TimerState))
                /\ notified' = notified + 1
                /\ last' = Ran("tick", "expired")
           ELSE /\ UNCHANGED <<timerVars, notified>>
                /\ last' = Ran("tick", "ok")
        /\ UNCHANGED <<activities, activeActivity, storage, now>>

\* The callback's work on the active activity: one second less, and the
\* notification when the countdown reaches zero.
countDown ==
    LET remaining == objs[activeActivity].remainingSeconds - 1
    IN  /\ objs' = [objs EXCEPT ![activeActivity].remainingSeconds = remaining]
        /\ IF Expires(remaining)
           THEN /\ SetTimerState(timerExpired(TimerState))
                /\ notified' = notified + 1
                /\ last' = Ran("tick", "expired")
           ELSE /\ UNCHANGED <<timerVars, notified>>
                /\ last' = Ran("tick", "ok")
        /\ UNCHANGED <<activities, activeActivity, storage, now>>

tick_NotGuarded ==
    IF activeActivity = NullRef
    THEN /\ SetTimerState(timerExpired(clearTimer(TimerState)))
         /\ last' = Ran("tick", "cleared")
         /\ UNCHANGED <<storeVars, now, notified>>
    ELSE countDown

\* The callback startTimer hands to setInterval.
tick ==
    IF activeActivity = NullRef
    THEN /\ SetTimerState(stopTitleFlashing(clearTimer(TimerState)))
         /\ last' = Ran("tick", "cleared")
         /\ UNCHANGED <<storeVars, now, notified>>
    ELSE countDown

\* The tick timer fires.
TickFires == \E h \in DOMAIN timers : timers[h] = "tick"

completeActivity ==
    IF activeActivity = NullRef
    THEN Rejected("completeActivity", "ignored")
    ELSE LET a == activeActivity
             endTime == Num(now)
             actualMinutes == ActualMinutes(objs[a].startTime, endTime)
             o == [objs[a] EXCEPT !.endTime = endTime,
                                  !.actualMinutes = actualMinutes,
                                  !.status = "completed",
                                  !.difference = Difference(actualMinutes, objs[a].estimatedMinutes)]
             heap == [objs EXCEPT ![a] = o]
             activityIndex == FindIndex(activities, heap, o.id)
             list == IF activityIndex # 0
                     THEN [activities EXCEPT ![activityIndex] = a]
                     ELSE activities
         IN  /\ SetTimerState(stopAll(TimerState))
             /\ storage' = saveToLocalStorage(list, heap)
             /\ activities' = list
             /\ activeActivity' = NullRef
             /\ objs' = Collect(heap, list, NullRef)
             /\ last' = Ran("completeActivity", "completed")
             /\ UNCHANGED <<now, notified>>

deleteActivity(activityId, confirmed) ==
    LET activity == Find(activities, objs, activityId)
    IN  IF activity = NullRef
        THEN Rejected("deleteActivity", "ignored")
        ELSE IF IsActiveId(activityId)
        THEN Rejected("deleteActivity", "alert-active")
        ELSE IF ~confirmed
        THEN Rejected("deleteActivity", "declined")
        ELSE LET list == FilterOut(activities, objs, activityId)
             IN  /\ activities' = list
                 /\ storage' = saveToLocalStorage(list, objs)
                 /\ objs' = Collect(objs, list, activeActivity)
                 /\ last' = Ran("deleteActivity", "deleted")
                 /\ UNCHANGED <<activeActivity, timerVars, now, notified>>

Validate_AcceptsAll(field, input) ==
    [ok |-> TRUE,
     value |-> CASE field \in {"estimatedMinutes", "actualMinutes"} ->
                       LET newValue == parseFloat(Trim(input.s))
                       IN  IF newValue = NaN THEN Num(0) ELSE newValue
                 [] field \in {"startTime", "endTime"} ->
                       IF input.d # Null THEN DateToISO(input.d) ELSE Null
                 [] field = "name" -> Trim(input.s)
                 [] OTHER -> input.o]

\* saveEdit's validation and conversion of the editor's value: whether it is
\* accepted, and the value to store.
Validate(field, input) ==
    CASE field \in {"estimatedMinutes", "actualMinutes"} ->
            LET newValue == parseFloat(Trim(input.s))
            IN  IF newValue = NaN \/ newValue.v < 0
                THEN [ok |-> FALSE, value |-> Null]
                ELSE [ok |-> TRUE, value |-> newValue]
      [] field \in {"startTime", "endTime"} ->
            IF input.d # Null THEN [ok |-> TRUE, value |-> DateToISO(input.d)]
            ELSE IF field = "endTime" THEN [ok |-> TRUE, value |-> Null]
            ELSE [ok |-> FALSE, value |-> Null]
      [] field = "name" ->
            IF Trim(input.s) = <<>>
            THEN [ok |-> FALSE, value |-> Null]
            ELSE [ok |-> TRUE, value |-> Trim(input.s)]
      [] OTHER -> [ok |-> TRUE, value |-> input.o]

Recalculate_DifferenceOnly(o, field) ==
    IF field \in {"startTime", "endTime", "estimatedMinutes", "actualMinutes"}
          /\ IsNum(o.actualMinutes) /\ Truthy(o.estimatedMinutes)
    THEN [o EXCEPT !.difference = Difference(o.actualMinutes, o.estimatedMinutes)]
    ELSE o

\* saveEdit's recomputation of the derived fields of the edited object.
Recalculate(o, field) ==
    IF field \in {"startTime", "endTime"} /\ o.startTime # Null /\ o.endTime # Null
    THEN LET actualMinutes == ActualMinutes(o.startTime, o.endTime)
         IN  IF Truthy(o.estimatedMinutes)
             THEN [o EXCEPT !.actualMinutes = actualMinutes,
                            !.difference = Difference(actualMinutes, o.estimatedMinutes)]
             ELSE [o EXCEPT !.actualMinutes = actualMinutes]
    ELSE IF field = "estimatedMinutes" /\ Truthy(o.actualMinutes)
    THEN [o EXCEPT !.difference = Difference(o.actualMinutes, o.estimatedMinutes)]
    ELSE IF field = "actualMinutes" /\ Truthy(o.estimatedMinutes)
    THEN [o EXCEPT !.difference = Difference(o.actualMinutes, o.estimatedMinutes)]
    ELSE o

EndsActive_Never(activityId, field, newValue) == FALSE

\* Whether saveEdit ends the active activity: status set to completed on the
\* row that carries the active activity's id.
EndsActive(activityId, field, newValue) ==
    /\ field = "status"
    /\ newValue = "completed"
    /\ IsActiveId(activityId)

\* makeEditable on the cell (row activityId, column field) followed by its
\* saveEdit with the editor holding input.
saveEdit(activityId, field, input) ==
    LET activity == Find(activities, objs, activityId)
        checked == Validate(field, input)
    IN  IF activity = NullRef
        THEN Rejected("saveEdit", "ignored")
        ELSE IF ~checked.ok
        THEN Rejected("saveEdit", "alert-invalid")
        ELSE LET written == [objs[activity] EXCEPT ![field] = checked.value]
                 heap == [objs EXCEPT ![activity] = Recalculate(written, field)]
                 ends == EndsActive(activityId, field, checked.value)
                 active == IF ends THEN NullRef ELSE activeActivity
             IN  /\ IF ends
                    THEN SetTimerState(stopAll(TimerState))
                    ELSE UNCHANGED timerVars
                 /\ activeActivity' = active
                 /\ storage' = saveToLocalStorage(activities, heap)
                 /\ objs' = Collect(heap, activities, active)
                 /\ last' = Ran("saveEdit", "saved")
                 /\ UNCHANGED <<activities, now, notified>>

\* The page is loaded again: the constructor and init() run on what is stored;
\* the timers of the page that went away die with it. JSON.parse builds new
\* objects: the references are handed out anew, in list order.
Reload ==
    LET data == loadFromLocalStorage(storage)
    IN  /\ activities' = [i \in DOMAIN data |-> i]
        /\ objs' = data
        /\ activeActivity' = NullRef
        /\ timerInterval' = NoHandle
        /\ titleFlashInterval' = NoHandle
        /\ notificationTimeouts' = <<>>
        /\ timers' = <<>>
        /\ documentTitle' = "original"
        /\ last' = Constructed(storage)
        /\ notified' = 0
        /\ UNCHANGED <<storage, now>>

\* The bound of the model: a step that changes more than the clock and the
\* record of the last handler counts, and MaxOps of them may happen.
Budget ==
    IF <<storeVars, timerVars>>' = <<storeVars, timerVars>>
    THEN ops' = ops
    ELSE ops < MaxOps /\ ops' = ops + 1

StartActivity ==
    /\ Alive
    /\ \E name \in Names, estimate \in Estimates : startActivity(name, estimate)
    /\ Budget
Tick == TickFires /\ tick /\ Budget
CompleteActivity == Alive /\ completeActivity /\ Budget
DeleteActivity ==
    /\ Alive
    /\ \E activityId \in RowIds \cup UnknownIds, confirmed \in BOOLEAN :
          deleteActivity(activityId, confirmed)
    /\ Budget
SaveEdit ==
    /\ \E activityId \in RowIds, field \in Fields :
          \E input \in EditInputs(field) : saveEdit(activityId, field, input)
    /\ Budget
PageLoad == Reload /\ Budget

Next ==
    \/ AdvanceClock
    \/ StartActivity
    \/ Tick
    \/ CompleteActivity
    \/ DeleteActivity
    \/ SaveEdit
    \/ PageLoad

Spec == Init /\ [][Next]_vars

(***************************************************************************)
(* The countdown through to overtime. An estimate of one minute is sixty   *)
(* ticks, so the expiry of the timer, the flashing title and the delayed   *)
(* second beep are followed in a specification of their own: one name, one *)
(* estimate, the status edits, and every tick down to MaxOvertime seconds  *)
(* past zero. The wall clock stands still here: the countdown counts ticks *)
(* and never reads it.                                                     *)
(***************************************************************************)
MaxTimerOps == 3
MaxOvertime == 2

\* The callback startTitleFlashing hands to setInterval: the title alternates,
\* the notification title first (isOriginalTitle is true exactly when the
\* title shown is the original one).
flash ==
    /\ documentTitle' = IF documentTitle = "original" THEN "notification" ELSE "original"
    /\ last' = Ran("flash", "ok")
    /\ UNCHANGED <<storeVars, timerInterval, titleFlashInterval, notificationTimeouts,
                   timers, now, notified>>

\* The title-flash timer fires.
FlashFires == \E h \in DOMAIN timers : timers[h] = "flash"

\* The callback playNotificationSound hands to setTimeout, for the timeout
\* with handle h: the second beep sounds and the handle leaves the tracking
\* array; a timeout fires once, so the page's timer is gone too.
secondBeep(h) ==
    /\ timers' = ClearHandles(timers, {h})
    /\ notificationTimeouts' = SelectSeq(notificationTimeouts, LAMBDA x : x # h)
    /\ last' = Ran("beep", "ok")
    /\ UNCHANGED <<storeVars, timerInterval, titleFlashInterval, documentTitle,
                   now, notified>>

TimerNames == {<<"a">>}
TimerEstimates == {<<"1">>}

\* Handler runs are counted as in Budget, up to MaxTimerOps; the callbacks of
\* the timers are not counted.
TimerBudget ==
    IF <<storeVars, timerVars>>' = <<storeVars, timerVars>>
    THEN ops' = ops
    ELSE ops < MaxTimerOps /\ ops' = ops + 1

\* The countdown is followed down to MaxOvertime seconds past zero.
WithinOvertime ==
    activeActivity # NullRef => objs[activeActivity].remainingSeconds > -MaxOvertime

TimerStart ==
    /\ Alive
    /\ \E name \in TimerNames, estimate \in TimerEstimates : startActivity(name, estimate)
    /\ TimerBudget
TimerTick == TickFires /\ WithinOvertime /\ tick /\ UNCHANGED ops
TimerFlash == FlashFires /\ flash /\ UNCHANGED ops
TimerBeep ==
    /\ \E h \in DOMAIN timers : timers[h] = "beep" /\ secondBeep(h)
    /\ UNCHANGED ops
TimerComplete == Alive /\ completeActivity /\ TimerBudget
TimerEdit ==
    /\ \E activityId \in RowIds, option \in StatusOptions :
          saveEdit(activityId, "status", OptionInput(option))
    /\ TimerBudget

NextTimer ==
    \/ TimerStart
    \/ TimerTick
    \/ TimerFlash
    \/ TimerBeep
    \/ TimerComplete
    \/ TimerEdit

SpecTimer == Init /\ [][NextTimer]_vars

(***************************************************************************)
(* Properties.                                                             *)
(***************************************************************************)
InProgress == {i \in DOMAIN activities : objs[activities[i]].status = "in-progress"}

\* C1: in every reachable state at most one record of the list has status
\* 'in-progress'.
C1_AtMostOneInProgress == Cardinality(InProgress) <= 1

\* C2: in every reachable state a record of the list is 'in-progress' exactly
\* when it is the object activeActivity refers to.
C2_InProgressIffActive ==
    \A i \in DOMAIN activities :
        objs[activities[i]].status = "in-progress" <=> activities[i] = activeActivity

C4_StartWhileActive ==
    [][\A name \in Names, estimate \in Estimates :
          (activeActivity # NullRef /\ startActivity(name, estimate))
              => /\ last' = Ran("startActivity", "alert-active")
                 /\ UNCHANGED <<storeVars, timerVars>>]_vars

\* C4 witness: startActivity has just been refused while an activity that has
\* ticked is active.
C4_Witness ==
    /\ last = Ran("startActivity", "alert-active")
    /\ activeActivity # NullRef
    /\ objs[activeActivity].remainingSeconds < 60

\* The estimates of the model that denote a positive integer, and the names
\* that are not empty.
PositiveIntegers == {<<"1">>}
IntegerDenoted(estimate) == CASE estimate = <<"1">> -> 1
NonEmptyNames == {name \in Names : name # <<>>}

C6_StartRejectsInvalid ==
    [][\A name \in Names, estimate \in Estimates :
          (/\ activeActivity = NullRef
           /\ name = <<>> \/ estimate \notin PositiveIntegers
           /\ startActivity(name, estimate))
              => /\ last' = Ran("startActivity", "alert-invalid")
                 /\ UNCHANGED <<storeVars, timerVars>>]_vars

\* What completeActivity does to everything but the two derived fields: the
\* active object gets endTime = now and status 'completed' and keeps its other
\* fields, the active pointer is cleared, the list holds the same objects at
\* the same places and no other object changes.
CompletesInPlace ==
    LET a == activeActivity
    IN  /\ last' = Ran("completeActivity", "completed")
        /\ activeActivity' = NullRef
        /\ activities' = activities
        /\ DOMAIN objs' = DOMAIN objs
        /\ \A r \in DOMAIN objs \ {a} : objs'[r] = objs[r]
        /\ objs'[a].endTime = Num(now)
        /\ objs'[a].status = "completed"
        /\ objs'[a].id = objs[a].id
        /\ objs'[a].name = objs[a].name
        /\ objs'[a].startTime = objs[a].startTime
        /\ objs'[a].estimatedMinutes = objs[a].estimatedMinutes
        /\ objs'[a].remainingSeconds = objs[a].remainingSeconds

\* x (in units of 1/scale) is n / d rounded to the nearest unit.
IsNearest(x, n, d) == 2 * Abs(x * d - n) <= d

C8_CompleteWithoutActive ==
    [][(activeActivity = NullRef /\ completeActivity)
          => /\ last' = Ran("completeActivity", "ignored")
             /\ UNCHANGED <<storeVars, timerVars>>]_vars

\* C8 witness: completeActivity has just been ignored, with records in the
\* list.
C8_Witness ==
    /\ last = Ran("completeActivity", "ignored")
    /\ activities # <<>>

\* C9: deleteActivity called with the id of the active activity, confirmed or
\* not, ends in the alert: the list, the objects, the active pointer, the
\* timers and the stored text stay as they were.
C9_DeleteActive ==
    [][\A confirmed \in BOOLEAN :
          (activeActivity # NullRef /\ deleteActivity(objs[activeActivity].id, confirmed))
              => /\ last' = Ran("deleteActivity", "alert-active")
                 /\ UNCHANGED <<storeVars, timerVars>>]_vars

\* C9 witness: the deletion of the active activity has just been refused.
C9_Witness ==
    /\ last = Ran("deleteActivity", "alert-active")
    /\ activeActivity # NullRef
    /\ timerInterval \in DOMAIN timers

\* C10: deleteActivity never removes from the list a record whose status is
\* 'in-progress'.
C10_InProgressNeverDeleted ==
    [][\A activityId \in RowIds \cup UnknownIds, confirmed \in BOOLEAN :
          deleteActivity(activityId, confirmed)
              => \A r \in Range(activities) :
                    objs[r].status = "in-progress" => r \in Range(activities')]_vars

\* The objects of the list whose id is not activityId, in the list's order.
Others(activityId) == SelectSeq(activities, LAMBDA r : objs[r].id # activityId)

C12_NotifiedOnce ==
    activities # <<>> =>
        /\ notified = IF objs[activities[1]].remainingSeconds <= 0 THEN 1 ELSE 0
        /\ activeActivity # NullRef =>
              /\ activeActivity = activities[1]
              /\ titleFlashInterval # NoHandle <=> objs[activeActivity].remainingSeconds <= 0

\* C12 witness: the running activity is seconds past its estimate, after the
\* one notification.
C12_Witness ==
    /\ activeActivity # NullRef
    /\ objs[activeActivity].remainingSeconds < 0
    /\ notified = 1
    /\ last = Ran("tick", "ok")

(***************************************************************************)
(* The stale callback. clearInterval keeps a cleared interval from firing, *)
(* so the callback's test of activeActivity never fails in SpecTimer       *)
(* (NoTickWithoutActive). SpecStale adds the case the test is written for: *)
(* the callback of the interval an ended activity ran on is invoked once   *)
(* more, after the activity is no longer active.                           *)
(***************************************************************************)
NoTickWithoutActive == activeActivity = NullRef => ~TickFires

StaleTick ==
    /\ activeActivity = NullRef
    /\ activities # <<>>
    /\ tick
    /\ UNCHANGED ops

NextStale == NextTimer \/ StaleTick

SpecStale == Init /\ [][NextStale]_vars

\* C13: a run of the tick callback while no activity is active changes no
\* record, neither the list nor the stored text, starts no beep and no title
\* flashing and counts no notification; it leaves no tick interval behind.
C13_TickWithoutActive ==
    [][(activeActivity = NullRef /\ tick)
          => /\ UNCHANGED <<storeVars, notified>>
             /\ timerInterval' = NoHandle
             /\ titleFlashInterval' = NoHandle
             /\ notificationTimeouts' = notificationTimeouts
             /\ \A h \in DOMAIN timers' : h \in DOMAIN timers /\ timers'[h] = timers[h]
             /\ ~\E h \in DOMAIN timers' : timers'[h] = "tick"]_vars

\* C13 witness: the callback has run after an overdue activity was completed.
C13_Witness ==
    /\ last = Ran("tick", "cleared")
    /\ activeActivity = NullRef
    /\ \E i \in DOMAIN activities :
          /\ objs[activities[i]].status = "completed"
          /\ objs[activities[i]].remainingSeconds < 0

TimersOfKind(kind) == {h \in DOMAIN timers : timers[h] = kind}

\* C14: with no activity active, no timer of the page is live and the tracker
\* holds no handle; with one active, the only live timers are its own: the one
\* tick interval the tracker holds and, once it is overdue and not before, the
\* title-flash interval and the tracked delayed beeps. No timer of an activity
\* that was ended is live, also right after the next activity was started.
C14_TimersCancelled ==
    IF activeActivity = NullRef
    THEN /\ timers = <<>>
         /\ timerInterval = NoHandle
         /\ titleFlashInterval = NoHandle
         /\ notificationTimeouts = <<>>
    ELSE /\ TimersOfKind("tick") = {timerInterval}
         /\ TimersOfKind("flash") \subseteq {titleFlashInterval}
         /\ TimersOfKind("beep") = Range(notificationTimeouts)
         /\ objs[activeActivity].remainingSeconds > 0
               => TimersOfKind("flash") \cup TimersOfKind("beep") = {}

\* C14 witness: a new activity was started right after one was ended at the
\* very second of its expiry, title flashing.
C14_Witness ==
    /\ last = Ran("startActivity", "started")
    /\ Len(activities) = 2
    /\ objs[activities[2]].remainingSeconds = 0
    /\ objs[activities[1]].remainingSeconds = 60

\* C15: in every state of the timers, stopping twice gives what stopping once
\* gives, for clearTimer and for stopTitleFlashing, and stopping what is not
\* running gives the state back as it was.
C15_StopIdempotent ==
    /\ clearTimer(clearTimer(TimerState)) = clearTimer(TimerState)
    /\ stopTitleFlashing(stopTitleFlashing(TimerState)) = stopTitleFlashing(TimerState)
    /\ timerInterval = NoHandle => clearTimer(TimerState) = TimerState
    /\ titleFlashInterval = NoHandle => stopTitleFlashing(TimerState) = TimerState

\* C15 witness: the tick interval, the title flashing and a delayed beep are
\* all live, the notification title showing, so that the first stop acts.
C15_Witness ==
    /\ timerInterval # NoHandle
    /\ titleFlashInterval # NoHandle
    /\ notificationTimeouts # <<>>
    /\ documentTitle = "notification"
    /\ clearTimer(TimerState) # TimerState
    /\ stopTitleFlashing(TimerState) # TimerState

\* C16: in every reachable state the estimatedMinutes of every record of the
\* list is a number strictly greater than 0.
C16_EstimatePositive ==
    \A i \in DOMAIN activities :
        /\ IsNum(objs[activities[i]].estimatedMinutes)
        /\ objs[activities[i]].estimatedMinutes.v > 0

\* C17: in every reachable state a record of the list without an endTime has
\* neither actualMinutes nor difference.
C17_DerivedAbsentWithoutEnd ==
    \A i \in DOMAIN activities :
        objs[activities[i]].endTime = Null
            => /\ objs[activities[i]].actualMinutes = Null
               /\ objs[activities[i]].difference = Null

\* C18: in every reachable state, for every record of the list with startTime
\* and endTime present, actualMinutes is (endTime - startTime) / 60000 rounded
\* to two decimals and, the estimate being positive, difference is
\* (actualMinutes - estimatedMinutes) / estimatedMinutes * 100 rounded to one
\* decimal.
C18_DerivedNeverStale ==
    \A i \in DOMAIN activities :
        LET o == objs[activities[i]]
        IN  (IsNum(o.startTime) /\ IsNum(o.endTime))
                => /\ IsNum(o.actualMinutes)
                   /\ IsNearest(o.actualMinutes.v, o.endTime.v - o.startTime.v, 600)
                   /\ (IsNum(o.estimatedMinutes) /\ o.estimatedMinutes.v > 0)
                          => /\ IsNum(o.difference)
                             /\ IsNearest(o.difference.v,
                                          (o.actualMinutes.v - o.estimatedMinutes.v) * 1000,
                                          o.estimatedMinutes.v)

\* The typed numbers that are not a number, or are negative.
InvalidNumbers == {<<>>, <<".">>, <<"-", "1">>}

\* The edits that must fail: an empty name, an estimate or an actual that is
\* not a number or is negative, an empty start time.
InvalidEdit(field, input) ==
    \/ field = "name" /\ input.s = <<>>
    \/ field \in {"estimatedMinutes", "actualMinutes"} /\ input.s \in InvalidNumbers
    \/ field = "startTime" /\ input.d = Null

\* C19: an inline edit with such a value ends in the alert and leaves the
\* edited object, every other object, the list, the active pointer, the
\* stored text and the timers as they were.
C19_InvalidEditRejected ==
    [][\A activityId \in RowIds, field \in Fields :
          \A input \in EditInputs(field) :
              (InvalidEdit(field, input) /\ saveEdit(activityId, field, input))
                  => /\ last' = Ran("saveEdit", "alert-invalid")
                     /\ UNCHANGED <<storeVars, timerVars>>]_vars

\* C19 witness: an edit was refused on a list of two records, one running.
C19_Witness ==
    /\ last = Ran("saveEdit", "alert-invalid")
    /\ Len(activities) = 2
    /\ activeActivity # NullRef

\* C20: an inline edit that sets the status of the active activity's row to
\* 'completed' marks the record completed, clears the active pointer, leaves
\* no tick interval, no title flashing, no tracked or live delayed beep and
\* the original title, so that startActivity no longer finds an activity
\* active.
C20_EditCompletesActive ==
    [][\A activityId \in RowIds :
          (IsActiveId(activityId) /\ saveEdit(activityId, "status", OptionInput("completed")))
              => /\ objs'[activeActivity].status = "completed"
                 /\ activeActivity' = NullRef
                 /\ ~HasActiveActivity'
                 /\ timerInterval' = NoHandle
                 /\ titleFlashInterval' = NoHandle
                 /\ notificationTimeouts' = <<>>
                 /\ timers' = <<>>
                 /\ documentTitle' = "original"]_vars

\* C20 witness: an overdue activity was ended by the status edit (it has no
\* endTime), and the next startActivity succeeded.
C20_Witness ==
    /\ last = Ran("startActivity", "started")
    /\ Len(activities) = 2
    /\ objs[activities[2]].status = "completed"
    /\ objs[activities[2]].endTime = Null
    /\ objs[activities[2]].remainingSeconds <= 0
    /\ activeActivity = activities[1]

\* C21: a saved inline edit of estimatedMinutes, or of actualMinutes, on a
\* record whose other field of the two is a number (0 included), the estimate
\* being positive afterwards, leaves difference at
\* (actualMinutes - estimatedMinutes) / estimatedMinutes * 100 of the new
\* values, rounded to one decimal, and changes no field but the edited one and
\* difference.
C21_DifferenceRecomputed ==
    [][\A activityId \in RowIds, field \in {"estimatedMinutes", "actualMinutes"} :
          \A input \in EditInputs(field) :
              (saveEdit(activityId, field, input) /\ last' = Ran("saveEdit", "saved"))
                  => LET r == Find(activities, objs, activityId)
                         o == objs[r]
                         c == objs'[r]
                         other == IF field = "estimatedMinutes"
                                  THEN o.actualMinutes ELSE o.estimatedMinutes
                     IN  (IsNum(other) /\ c.estimatedMinutes.v > 0)
                             => /\ IsNum(c.difference)
                                /\ IsNearest(c.difference.v,
                                             (c.actualMinutes.v - c.estimatedMinutes.v) * 1000,
                                             c.estimatedMinutes.v)
                                /\ c = [o EXCEPT ![field] = c[field],
                                                 !.difference = c.difference]]_vars

\* C22: a saved inline edit of startTime or of endTime after which both are
\* present leaves actualMinutes at (endTime - startTime) / 60000 rounded to
\* two decimals and, the estimate being set (a number other than 0), leaves
\* difference at (actualMinutes - estimatedMinutes) / estimatedMinutes * 100
\* of the new actualMinutes, rounded to one decimal; with an estimate of 0
\* difference stays as it was.
C22_TimesRecomputed ==
    [][\A activityId \in RowIds, field \in {"startTime", "endTime"} :
          \A input \in EditInputs(field) :
              (saveEdit(activityId, field, input) /\ last' = Ran("saveEdit", "saved"))
                  => LET r == Find(activities, objs, activityId)
                         o == objs[r]
                         c == objs'[r]
                     IN  (IsNum(c.startTime) /\ IsNum(c.endTime))
                             => /\ IsNum(c.actualMinutes)
                                /\ IsNearest(c.actualMinutes.v, c.endTime.v - c.startTime.v, 600)
                                /\ IF c.estimatedMinutes.v # 0
                                   THEN /\ IsNum(c.difference)
                                        /\ IsNearest(c.difference.v,
                                                     (c.actualMinutes.v - c.estimatedMinutes.v) * 1000,
                                                     c.estimatedMinutes.v)
                                   ELSE c.difference = o.difference]_vars

\* C22 witness: the endTime of a completed record was edited to a time a
\* fraction of a minute after its start, and both derived fields follow.
C22_Witness ==
    /\ last = Ran("saveEdit", "saved")
    /\ \E i \in DOMAIN activities :
          LET o == objs[activities[i]]
          IN  /\ IsNum(o.endTime) /\ IsNum(o.startTime)
              /\ o.endTime.v - o.startTime.v = 20000
              /\ o.actualMinutes = Num(33)
              /\ o.estimatedMinutes = Num(100)
              /\ o.difference = Num(-670)

\* C23: while an activity is active the timer element shows two digits of
\* minutes, a colon and two digits of seconds that make up the absolute value
\* of remainingSeconds, after a '-' exactly when it is negative; it carries
\* 'warning' exactly when 0 < remainingSeconds < 60 and 'expired' exactly when
\* remainingSeconds < 0.
C23_TimerDisplay ==
    activeActivity # NullRef =>
        LET remaining == objs[activeActivity].remainingSeconds
            text == timerElement.textContent
            digits == IF remaining < 0 THEN Tail(text) ELSE text
        IN  /\ (text[1] = "-") <=> (remaining < 0)
            /\ Len(digits) = 5
            /\ digits[3] = ":"
            /\ \A i \in {1, 2, 4, 5} : IsDigit(digits[i])
            /\ 10 * DigitVal(digits[4]) + DigitVal(digits[5]) < 60
            /\ (10 * DigitVal(digits[1]) + DigitVal(digits[2])) * 60
                  + 10 * DigitVal(digits[4]) + DigitVal(digits[5])
               = Abs(remaining)
            /\ ("warning" \in timerElement.classList) <=> (0 < remaining /\ remaining < 60)
            /\ ("expired" \in timerElement.classList) <=> (remaining < 0)

\* C24: whenever the constructor has just run on stored text that is absent,
\* does not parse, or parses to something that is not a list of activities,
\* it has ended without an error, with an empty list and no active activity.
C24_LoadFailsSoft ==
    (last.op = "constructor" /\ storage.kind \in {"absent", "malformed", "notalist"})
        => /\ last.result = "ok"
           /\ activities = <<>>
           /\ activeActivity = NullRef

\* C25: in every reachable state no two records of the list have the same id.
C25_UniqueIds ==
    \A i, j \in DOMAIN activities :
        objs[activities[i]].id = objs[activities[j]].id => i = j

\* C26: in every reachable state a record of the list that has an endTime has
\* status 'completed'.
C26_EndTimeOnlyCompleted ==
    \A i \in DOMAIN activities :
        objs[activities[i]].endTime # Null => objs[activities[i]].status = "completed"

\* C27: a run of the tick callback while an activity is active takes exactly
\* one second off that activity's remainingSeconds, whether it was positive,
\* zero or negative, and changes nothing else: not another field of it, not
\* another record, not the list, the active pointer or the stored text.
C27_TickDecrements ==
    [][(activeActivity # NullRef /\ tick)
          => /\ objs'[activeActivity].remainingSeconds
                  = objs[activeActivity].remainingSeconds - 1
             /\ objs' = [objs EXCEPT ![activeActivity].remainingSeconds
                                        = objs'[activeActivity].remainingSeconds]
             /\ UNCHANGED <<activities, activeActivity, storage>>]_vars

\* C27 witness: a tick ran on an activity already in overtime, next to a
\* completed record.
C27_Witness ==
    /\ last = Ran("tick", "ok")
    /\ activeActivity # NullRef
    /\ objs[activeActivity].remainingSeconds = -MaxOvertime
    /\ Len(activities) = 2

C29_PersistedExactly ==
    [][/\ last'.result \in {"started", "completed", "deleted", "saved"}
          => /\ storage'.kind = "json"
             /\ storage'.data = [i \in DOMAIN activities' |-> objs'[activities'[i]]]
       /\ last'.result \in {"alert-active", "alert-invalid", "ignored", "declined"}
          => storage' = storage]_vars

====
